---- MODULE Spec2Model ----
(***************************************************************************)
(* Model of plugin/src/model/classifier.rs: the Classifier value, its      *)
(* Display implementation (fmt) and its derived serde encoding.            *)
(*                                                                         *)
(* Text is modelled by TLA+ strings: `\o` is what write! appends, Len and  *)
(* SubSeq address characters.  Option<T> is a sequence of length 0 (None)  *)
(* or 1 (Some).  A BTreeMap is the sequence of its <<key, value>> entries  *)
(* kept in ascending key order.                                            *)
(***************************************************************************)
EXTENDS Integers, Sequences, FiniteSets, TLC

VARIABLES self, out, enc, dec

vars == <<self, out, enc, dec>>

(***************************************************************************)
(* Bounds of the enumerated inputs.                                        *)
(***************************************************************************)
MaxStereotypes == 2
MaxMembers == 2

None == <<>>
Some(x) == <<x>>

\* The guillemets U+00AB and U+00BB of fmt.  TLC keeps the characters of a
\* string as bytes, so the two are written as the ASCII characters `<` and
\* `>`, which no other text of the model contains.
Laquo == "<"
Raquo == ">"

(***************************************************************************)
(* Input universes.  Meta, Attribute and Operation are opaque to this file *)
(* and only used through `{}`: a value is represented by the text its own  *)
(* Display writes.                                                         *)
(***************************************************************************)
MetaKeys == {"doc", "id"}
MetaValues == {"m1", "m2"}
Names == {"Order"}
Ids == {None, Some("p1")}
StereotypeTexts == {"abstract", "Entity"}
AttributeTexts == {"id: UUID", "n: int"}
OperationTexts == {"run()"}

ClassifierKind == {"Class", "DataType", "Enumeration", "Interface", "Primitive"}

SeqsUpTo(S, n) == UNION {[1..k -> S] : k \in 0..n}

(***************************************************************************)
(* Ord for str: lexicographic comparison by character code.                *)
(***************************************************************************)
Chars == "-ABCDEFGHIJKLMNOPQRSTUVWXYZabcdefghijklmnopqrstuvwxyz"

CharCode(ch) == CHOOSE i \in 1..Len(Chars) : SubSeq(Chars, i, i) = ch

RECURSIVE StrLess(_, _)
StrLess(a, b) ==
    IF b = "" THEN FALSE
    ELSE IF a = "" THEN TRUE
    ELSE IF SubSeq(a, 1, 1) = SubSeq(b, 1, 1)
         THEN StrLess(SubSeq(a, 2, Len(a)), SubSeq(b, 2, Len(b)))
         ELSE CharCode(SubSeq(a, 1, 1)) < CharCode(SubSeq(b, 1, 1))

(***************************************************************************)
(* BTreeMap::insert: replaces the value of an equal key, otherwise places  *)
(* the entry before the first greater key.                                 *)
(***************************************************************************)
\* an insertion-ordered map in place of the B-tree
InsertAppend(m, k, v) ==
    IF \E i \in 1..Len(m) : m[i][1] = k
    THEN [i \in 1..Len(m) |-> IF m[i][1] = k THEN <<k, v>> ELSE m[i]]
    ELSE Append(m, <<k, v>>)

BTreeInsert(m, k, v) ==
    IF \E i \in 1..Len(m) : m[i][1] = k
    THEN [i \in 1..Len(m) |-> IF m[i][1] = k THEN <<k, v>> ELSE m[i]]
    ELSE LET n == Cardinality({i \in 1..Len(m) : StrLess(m[i][1], k)})
         IN  SubSeq(m, 1, n) \o <<<<k, v>>>> \o SubSeq(m, n + 1, Len(m))

RECURSIVE BTreeFromIter(_)
BTreeFromIter(es) ==
    IF es = <<>> THEN <<>>
    ELSE LET n == Len(es)
         IN  BTreeInsert(BTreeFromIter(SubSeq(es, 1, n - 1)), es[n][1], es[n][2])

\* BTreeMap::values(): the values in ascending key order
Values(m) == [i \in 1..Len(m) |-> m[i][2]]

(***************************************************************************)
(* ClassifierKind::kind and Display for ClassifierKind                     *)
(***************************************************************************)
kindLowercase(k) ==
    CASE k = "Class" -> "class"
      [] k = "DataType" -> "datatype"
      [] k = "Enumeration" -> "enumeration"
      [] k = "Interface" -> "interface"
      [] k = "Primitive" -> "primitive"

kind(k) ==
    CASE k = "Class" -> "class"
      [] k = "DataType" -> "dataType"
      [] k = "Enumeration" -> "enumeration"
      [] k = "Interface" -> "interface"
      [] k = "Primitive" -> "primitive"

FmtKind(k) == kind(k)

(***************************************************************************)
(* Display for Classifier, one definition per block of fmt                 *)
(***************************************************************************)
\* the `for x in iter { write!(f, ", {}", x) }` loops
RECURSIVE WriteRest(_, _)
WriteRest(xs, i) ==
    IF i > Len(xs) THEN "" ELSE ", " \o xs[i] \o WriteRest(xs, i + 1)

FmtMeta(c) ==
    LET meta == Values(c.meta)
    IN  IF meta # <<>>
        THEN "#[" \o meta[1] \o WriteRest(meta, 2) \o "]\n"
        ELSE ""

\* without the test of the kind
FmtAbstractAnyKind(c) == IF c.is_abstract THEN "abstract " ELSE ""

FmtAbstract(c) ==
    IF c.is_abstract /\ c.kind # "Interface" THEN "abstract " ELSE ""

FmtFinal(c) == IF c.is_final THEN "final " ELSE ""

\* the commented-out lines 54-65: the keyword of a kind other than Class
\* leads the list inside the guillemets
FmtKeywordAndStereotypes(c) ==
    LET keyword == IF c.kind # "Class" THEN <<kind(c.kind)>> ELSE <<>>
        keyword_and_stereotypes == keyword \o c.stereotypes
    IN  IF keyword_and_stereotypes # <<>>
        THEN Laquo \o keyword_and_stereotypes[1]
               \o WriteRest(keyword_and_stereotypes, 2) \o Raquo \o " "
        ELSE ""

FmtStereotypes(c) ==
    LET stereotypes == c.stereotypes
    IN  IF stereotypes # <<>>
        THEN Laquo \o stereotypes[1] \o WriteRest(stereotypes, 2) \o Raquo \o " "
        ELSE ""

FmtHeader(c) ==
    FmtKind(c.kind) \o " " \o c.name
      \o (IF c.id # None THEN " as " \o c.id[1] ELSE "")

RECURSIVE WriteMembers(_, _)
WriteMembers(xs, i) ==
    IF i > Len(xs) THEN "" ELSE "\n  " \o xs[i] \o WriteMembers(xs, i + 1)

\* the braces written without the test for members
FmtMembersAlways(c) ==
    " {" \o WriteMembers(c.attributes, 1)
         \o WriteMembers(c.operations, 1) \o "\n}"

\* the operations written before the attributes
FmtMembersOperationsFirst(c) ==
    IF c.attributes # <<>> \/ c.operations # <<>>
    THEN " {" \o WriteMembers(c.operations, 1)
              \o WriteMembers(c.attributes, 1) \o "\n}"
    ELSE ""

\* the closing brace written with writeln!
FmtMembersNewline(c) ==
    IF c.attributes # <<>> \/ c.operations # <<>>
    THEN " {" \o WriteMembers(c.attributes, 1)
              \o WriteMembers(c.operations, 1) \o "\n}\n"
    ELSE ""

FmtMembers(c) ==
    IF c.attributes # <<>> \/ c.operations # <<>>
    THEN " {" \o WriteMembers(c.attributes, 1)
              \o WriteMembers(c.operations, 1) \o "\n}"
    ELSE ""

\* `final ` written before `abstract `
fmtFinalFirst(c) ==
    FmtMeta(c) \o FmtFinal(c) \o FmtAbstract(c) \o FmtStereotypes(c)
      \o FmtHeader(c) \o FmtMembers(c)

fmt(c) ==
    FmtMeta(c) \o FmtAbstract(c) \o FmtFinal(c) \o FmtStereotypes(c)
      \o FmtHeader(c) \o FmtMembers(c)

(***************************************************************************)
(* The derived Serialize / Deserialize of Classifier and ClassifierKind.   *)
(* An encoding is the sequence of <<key, value>> entries handed to the     *)
(* data format, in the order they are written; a value is <<type, data>>.  *)
(***************************************************************************)
Upper == "ABCDEFGHIJKLMNOPQRSTUVWXYZ"
Lower == "abcdefghijklmnopqrstuvwxyz"

IsUpper(ch) == \E i \in 1..Len(Upper) : SubSeq(Upper, i, i) = ch

ToLower(ch) ==
    IF IsUpper(ch)
    THEN LET i == CHOOSE j \in 1..Len(Upper) : SubSeq(Upper, j, j) = ch
         IN  SubSeq(Lower, i, i)
    ELSE ch

\* rename_all = "kebab-case" on the variants: a `-` before every capital
\* but the first, everything lowercased
RECURSIVE KebabFrom(_, _)
KebabFrom(s, i) ==
    IF i > Len(s) THEN ""
    ELSE LET ch == SubSeq(s, i, i)
         IN  (IF i > 1 /\ IsUpper(ch) THEN "-" ELSE "") \o ToLower(ch)
               \o KebabFrom(s, i + 1)

KebabCase(variant) == KebabFrom(variant, 1)

\* the variant names the derive generates for ClassifierKind
VariantName == [k \in ClassifierKind |-> KebabCase(k)]

\* the keys of the fields after rename / rename_all, in declaration order
FieldKeys ==
    <<"abstract", "final", "kind", "name", "id",
      "stereotypes", "attributes", "operations">>

IsFieldKey(k) == \E i \in 1..Len(FieldKeys) : FieldKeys[i] = k

\* #[serde(flatten)] meta: its entries are written into the enclosing map
SerMeta(c) == [i \in 1..Len(c.meta) |-> <<c.meta[i][1], <<"meta", c.meta[i][2]>>>>]

\* helpers::is_false
is_false(b) == b = FALSE

\* skip_serializing_if = "helpers::is_false"
SerFlag(key, b) == IF is_false(b) THEN <<>> ELSE <<<<key, <<"bool", b>>>>>>

\* skip_serializing_if = "Option::is_none"
SerOption(key, o) == IF o = None THEN <<>> ELSE <<<<key, <<"str", o[1]>>>>>>

\* skip_serializing_if = "Vec::is_empty"
SerVec(key, v) == IF v = <<>> THEN <<>> ELSE <<<<key, <<"seq", v>>>>>>

Serialize(c) ==
    SerMeta(c)
      \o SerFlag("abstract", c.is_abstract)
      \o SerFlag("final", c.is_final)
      \o <<<<"kind", <<"str", VariantName[c.kind]>>>>>>
      \o <<<<"name", <<"str", c.name>>>>>>
      \o SerOption("id", c.id)
      \o SerVec("stereotypes", c.stereotypes)
      \o SerVec("attributes", c.attributes)
      \o SerVec("operations", c.operations)

\* The visitor of one field reading a value: Some(field value), or None when
\* the value has the wrong type.  How a Meta value is encoded is decided
\* outside this file: where the visitor of `id` meets one, `asStr` tells
\* whether the format presents it as a str.
DeField(key, val, asStr) ==
    CASE key \in {"abstract", "final"} ->
            IF val[1] = "bool" THEN Some(val[2]) ELSE None
      [] key = "kind" ->
            IF val[1] = "str" /\ \E k \in ClassifierKind : VariantName[k] = val[2]
            THEN Some(CHOOSE k \in ClassifierKind : VariantName[k] = val[2])
            ELSE None
      [] key = "name" ->
            IF val[1] = "str" THEN Some(val[2]) ELSE None
      [] key = "id" ->
            IF val[1] = "str" \/ (val[1] = "meta" /\ asStr)
            THEN Some(Some(val[2])) ELSE None
      [] key \in {"stereotypes", "attributes", "operations"} ->
            IF val[1] = "seq" THEN Some(val[2]) ELSE None

NoFields == [k \in {FieldKeys[i] : i \in 1..Len(FieldKeys)} |-> None]

\* visit_map: a key of a field fills the field (twice is an error), any
\* other entry is collected for the flattened meta
RECURSIVE DeEntries(_, _, _, _)
DeEntries(es, i, st, asStr) ==
    IF i > Len(es) \/ st.err # None THEN st
    ELSE LET key == es[i][1]
             val == es[i][2]
         IN  IF IsFieldKey(key)
             THEN IF st.fields[key] # None
                  THEN [st EXCEPT !.err = Some("duplicate field")]
                  ELSE LET v == DeField(key, val, asStr)
                       IN  IF v = None
                           THEN [st EXCEPT !.err = Some("invalid type")]
                           ELSE DeEntries(es, i + 1,
                                    [st EXCEPT !.fields[key] = v], asStr)
             ELSE DeEntries(es, i + 1,
                      [st EXCEPT !.collect = Append(@, <<key, val[2]>>)], asStr)

\* a field the map did not hold: only an Option has a value then (no
\* #[serde(default)] on any field)
MissingField(key) == IF key = "id" THEN Some(None) ELSE None

FieldOrMissing(st, key) ==
    IF st.fields[key] # None THEN st.fields[key] ELSE MissingField(key)

Deserialize(es, asStr) ==
    LET st == DeEntries(es, 1, [fields |-> NoFields, collect |-> <<>>, err |-> None], asStr)
        get(key) == FieldOrMissing(st, key)
    IN  IF st.err # None THEN <<"Err", st.err[1]>>
        ELSE IF \E i \in 1..Len(FieldKeys) : get(FieldKeys[i]) = None
        THEN <<"Err", "missing field">>
        ELSE <<"Ok", [meta |-> BTreeFromIter(st.collect),
                      is_abstract |-> get("abstract")[1],
                      is_final |-> get("final")[1],
                      kind |-> get("kind")[1],
                      name |-> get("name")[1],
                      id |-> get("id")[1],
                      stereotypes |-> get("stereotypes")[1],
                      attributes |-> get("attributes")[1],
                      operations |-> get("operations")[1]]>>

(***************************************************************************)
(* The Classifier values of the model                                      *)
(***************************************************************************)
MetaEntrySeqs ==
    {es \in SeqsUpTo(MetaKeys \X MetaValues, Cardinality(MetaKeys)) :
        \A i, j \in 1..Len(es) : i # j => es[i][1] # es[j][1]}

MemberPairs ==
    {p \in SeqsUpTo(AttributeTexts, MaxMembers) \X SeqsUpTo(OperationTexts, MaxMembers) :
        Len(p[1]) + Len(p[2]) <= MaxMembers}

Classifier(m, a, f, k, n, i, s, p) ==
    [meta |-> m, is_abstract |-> a, is_final |-> f, kind |-> k, name |-> n,
     id |-> i, stereotypes |-> s, attributes |-> p[1], operations |-> p[2]]

Init ==
    /\ \E es \in MetaEntrySeqs, a \in BOOLEAN, f \in BOOLEAN, k \in ClassifierKind,
          n \in Names, i \in Ids, s \in SeqsUpTo(StereotypeTexts, MaxStereotypes),
          p \in MemberPairs :
            self = Classifier(BTreeFromIter(es), a, f, k, n, i, s, p)
    /\ out = None
    /\ enc = None
    /\ dec = None

\* to_string(): runs Display::fmt into a fresh String
Render ==
    /\ out = None
    /\ out' = Some(fmt(self))
    /\ UNCHANGED <<self, enc, dec>>

\* Serialize::serialize into the data format
Encode ==
    /\ enc = None
    /\ enc' = Some(Serialize(self))
    /\ UNCHANGED <<self, out, dec>>

\* Deserialize::deserialize of what Encode wrote
Decode ==
    /\ enc # None
    /\ dec = None
    /\ \E asStr \in BOOLEAN : dec' = Some(Deserialize(enc[1], asStr))
    /\ UNCHANGED <<self, out, enc>>

\* rendering a Classifier
Next == Render

Spec == Init /\ [][Next]_vars

\* encoding a Classifier and decoding the encoding
NextCodec == Encode \/ Decode

SpecCodec == Init /\ [][NextCodec]_vars

(***************************************************************************)
(* Reading a rendered text back                                            *)
(***************************************************************************)
Rendered == out # None

Encoded == enc # None

Decoded == dec # None

\* the positions of s where one of the texts of T, all of length n, starts
Positions(s, T, n) == {i \in 1..(Len(s) - n + 1) : SubSeq(s, i, i + n - 1) \in T}

Contains(s, t) ==
    \E i \in 1..(Len(s) - Len(t) + 1) : SubSeq(s, i, i + Len(t) - 1) = t

ContainsAny(s, T, n) ==
    \E i \in 1..(Len(s) - n + 1) : SubSeq(s, i, i + n - 1) \in T

CountOf(s, t) == Cardinality(Positions(s, {t}, Len(t)))

Min(S) == CHOOSE i \in S : \A j \in S : i <= j

Max(S) == CHOOSE i \in S : \A j \in S : j <= i

\* position of the first occurrence of t in s, 0 when there is none
IndexOf(s, t) ==
    LET n == Len(t)
        last == Len(s) - n + 1
    IN  IF \E i \in 1..last : SubSeq(s, i, i + n - 1) = t
        THEN CHOOSE i \in 1..last :
                 /\ SubSeq(s, i, i + n - 1) = t
                 /\ \A j \in 1..(i - 1) : SubSeq(s, j, j + n - 1) # t
        ELSE 0

StartsWith(s, t) == Len(t) <= Len(s) /\ SubSeq(s, 1, Len(t)) = t

EndsWith(s, t) == Len(t) <= Len(s) /\ SubSeq(s, Len(s) - Len(t) + 1, Len(s)) = t

From(s, i) == SubSeq(s, i, Len(s))

LastChar(s) == SubSeq(s, Len(s), Len(s))

RECURSIVE Join(_, _)
Join(xs, sep) ==
    IF xs = <<>> THEN ""
    ELSE IF Len(xs) = 1 THEN xs[1]
    ELSE Join(SubSeq(xs, 1, Len(xs) - 1), sep) \o sep \o xs[Len(xs)]

Entries(m) == {m[i] : i \in 1..Len(m)}

\* the values of a set of entries with distinct keys, smallest key first
RECURSIVE AscendingValues(_)
AscendingValues(S) ==
    IF S = {} THEN <<>>
    ELSE LET lo == CHOOSE e \in S : \A f \in S \ {e} : StrLess(e[1], f[1])
         IN  <<lo[2]>> \o AscendingValues(S \ {lo})

HasMembers(c) == c.attributes # <<>> \/ c.operations # <<>>

IdOrName(c) == IF c.id # None THEN c.id[1] ELSE c.name

Modifiers == {"", "abstract ", "final ", "abstract final "}

\* the text after the annotation line
Declaration(text, c) ==
    IF c.meta # <<>> THEN From(text, IndexOf(text, "\n") + 1) ELSE text

\* the first line of the declaration without the ` {` that opens the block
HeaderLine(text, c) ==
    LET d == Declaration(text, c)
        brace == Positions(d, {" {"}, 2)
    IN  IF HasMembers(c) /\ brace # {} THEN SubSeq(d, 1, Min(brace) - 1) ELSE d

\* no text supplied by the caller contains t
InputsFreeOf(c, t) ==
    /\ ~Contains(c.name, t)
    /\ c.id # None => ~Contains(c.id[1], t)
    /\ \A i \in 1..Len(c.stereotypes) : ~Contains(c.stereotypes[i], t)
    /\ \A i \in 1..Len(c.meta) : ~Contains(c.meta[i][2], t)
    /\ \A i \in 1..Len(c.attributes) : ~Contains(c.attributes[i], t)
    /\ \A i \in 1..Len(c.operations) : ~Contains(c.operations[i], t)

(***************************************************************************)
(* C1: decoding the structured encoding of a Classifier gives back a       *)
(* Classifier equal to the original in every field.                        *)
(***************************************************************************)
C1_RoundTrip ==
    Decoded => dec[1][1] = "Ok" /\ dec[1][2] = self

(***************************************************************************)
(* C2: after the annotation line the text starts with "abstract " exactly  *)
(* when is_abstract holds and kind is not Interface, then "final " exactly *)
(* when is_final holds, and the stereotype block or else the keyword       *)
(* follows at once.                                                        *)
(***************************************************************************)
C2_ModifierPrefix ==
    Rendered =>
        LET d == Declaration(out[1], self)
            next == IF self.stereotypes # <<>> THEN Laquo
                    ELSE kind(self.kind) \o " "
            abs == StartsWith(d, "abstract ")
            rest == IF abs THEN From(d, Len("abstract ") + 1) ELSE d
            fin == StartsWith(rest, "final ")
        IN  /\ abs <=> (self.is_abstract /\ self.kind # "Interface")
            /\ fin <=> self.is_final
            /\ StartsWith(IF fin THEN From(rest, Len("final ") + 1) ELSE rest, next)

C2_Witness ==
    /\ Rendered
    /\ self.is_abstract /\ self.is_final /\ self.kind = "Class"
    /\ self.stereotypes # <<>> /\ self.meta # <<>>
    /\ Contains(out[1], "abstract final " \o Laquo)

(***************************************************************************)
(* C3 as stated: the text of an Interface with is_abstract set never       *)
(* contains `abstract`, whatever its other fields are.                     *)
(***************************************************************************)
C3_Original ==
    Rendered /\ self.kind = "Interface" /\ self.is_abstract
        => ~Contains(out[1], "abstract")

(***************************************************************************)
(* C3 amended: the text of an Interface with is_abstract set contains      *)
(* `abstract` only where its name, id, stereotypes, meta or members        *)
(* supply it.                                                              *)
(***************************************************************************)
C3_NoAbstractModifier ==
    Rendered /\ self.kind = "Interface" /\ self.is_abstract
             /\ InputsFreeOf(self, "abstract")
        => ~Contains(out[1], "abstract")

C3_Witness ==
    /\ Rendered
    /\ self.kind = "Interface" /\ self.is_abstract /\ self.is_final
    /\ self.stereotypes = <<"Entity">> /\ HasMembers(self)
    /\ InputsFreeOf(self, "abstract")

(***************************************************************************)
(* C4: an empty meta, stereotypes or member list adds no text: without     *)
(* meta no `#[`, without stereotypes no guillemet, without members no      *)
(* brace, and never `#[]`, empty guillemets or `{}`; with all four empty   *)
(* the text is the modifiers and the header.                               *)
(***************************************************************************)
C4_EmptyOmitted ==
    Rendered =>
        LET text == out[1]
            marks == Positions(text, {"#", "[", Laquo, Raquo, "{", "}"}, 1)
            Slice(i, n) == SubSeq(text, i, IF i + n - 1 > Len(text) THEN Len(text)
                                                                         ELSE i + n - 1)
            Two(i) == Slice(i, 2)
            One(i) == Slice(i, 1)
        IN  /\ self.meta = <<>> => \A i \in marks : Two(i) # "#["
            /\ self.stereotypes = <<>> => \A i \in marks : One(i) \notin {Laquo, Raquo}
            /\ ~HasMembers(self) => \A i \in marks : One(i) \notin {"{", "}"}
            /\ \A i \in marks : Slice(i, 3) # "#[]"
            /\ \A i \in marks : Two(i) \notin {Laquo \o Raquo, "{}"}
            /\ (self.meta = <<>> /\ self.stereotypes = <<>> /\ ~HasMembers(self)) =>
                   \E m \in Modifiers :
                       text = m \o kind(self.kind) \o " " \o self.name
                                \o (IF self.id # None THEN " as " \o self.id[1] ELSE "")

C4_Witness ==
    /\ Rendered
    /\ self.meta = <<>> /\ self.stereotypes = <<>> /\ ~HasMembers(self)
    /\ self.is_abstract /\ self.id # None

(***************************************************************************)
(* C5: without members the text ends with the header and has no braces;    *)
(* otherwise the header is followed by ` {`, one line of two spaces and    *)
(* the member per attribute then per operation, in input order with        *)
(* repetitions kept, and a line holding `}`.                               *)
(***************************************************************************)
C5_MemberBlock ==
    Rendered =>
        LET members == self.attributes \o self.operations
            block == " {\n  " \o Join(members, "\n  ") \o "\n}"
            d == Declaration(out[1], self)
            header == SubSeq(d, 1, Len(d) - Len(block))
        IN  IF members = <<>>
            THEN /\ ~ContainsAny(d, {"{", "}", "\n"}, 1)
                 /\ EndsWith(d, IdOrName(self))
            ELSE /\ EndsWith(d, block)
                 /\ ~ContainsAny(header, {"{", "}", "\n"}, 1)
                 /\ EndsWith(header, IdOrName(self))

C5_Witness ==
    /\ Rendered
    /\ self.attributes = <<"n: int">> /\ self.operations = <<"run()">>
    /\ EndsWith(out[1], "Order {\n  n: int\n  run()\n}")

(***************************************************************************)
(* C6: non-empty stereotypes give exactly one block in guillemets after    *)
(* the modifiers and right before the kind keyword, its entries the        *)
(* stereotypes in input order with repetitions kept, separated by `, `;    *)
(* the keyword is outside the guillemets.                                  *)
(***************************************************************************)
C6_StereotypeBlock ==
    Rendered /\ self.stereotypes # <<>> =>
        LET d == Declaration(out[1], self)
            marks == Positions(d, {Laquo, Raquo}, 1)
            open == Min(marks)
            close == Max(marks)
            inside == SubSeq(d, open + 1, close - 1)
        IN  /\ Cardinality(marks) = 2
            /\ SubSeq(d, open, open) = Laquo /\ SubSeq(d, close, close) = Raquo
            /\ inside = Join(self.stereotypes, ", ")
            /\ CountOf(inside, ", ") + 1 = Len(self.stereotypes)
            /\ ~Contains(inside, kind(self.kind))
            /\ StartsWith(From(d, close), Raquo \o " " \o kind(self.kind) \o " ")
            /\ SubSeq(d, 1, open - 1) \in Modifiers

C6_Witness ==
    /\ Rendered
    /\ self.stereotypes = <<"Entity", "abstract">>
    /\ self.kind = "DataType"
    /\ Contains(out[1], Laquo \o "Entity, abstract" \o Raquo \o " dataType ")

(***************************************************************************)
(* C7: non-empty meta gives exactly one first line `#[k1, k2, ...]`, the   *)
(* values by ascending key, one per key; the text does not depend on the   *)
(* order in which the entries were inserted.                               *)
(***************************************************************************)
C7_AnnotationLine ==
    Rendered =>
        /\ self.meta # <<>> =>
              LET line == "#[" \o Join(AscendingValues(Entries(self.meta)), ", ") \o "]"
              IN  /\ StartsWith(out[1], line \o "\n")
                  /\ Positions(out[1], {"#", "[", "]"}, 1) = {1, 2, Len(line)}
                  /\ CountOf(SubSeq(out[1], 1, IndexOf(out[1], "\n")), ", ") + 1
                         = Cardinality({e[1] : e \in Entries(self.meta)})
        /\ \A p \in Permutations(DOMAIN self.meta) :
              LET es == [i \in DOMAIN self.meta |-> self.meta[p[i]]]
              IN  fmt([self EXCEPT !.meta = BTreeFromIter(es)]) = out[1]

C7_Witness ==
    /\ Rendered
    /\ self.meta = <<<<"doc", "m2">>, <<"id", "m1">>>>
    /\ StartsWith(out[1], "#[m2, m1]\n")

(***************************************************************************)
(* C8: the text holds `<keyword> <name>` with the keyword of the kind,     *)
(* followed by ` as <id>` exactly when id is present.                      *)
(***************************************************************************)
C8_Header ==
    Rendered =>
        LET keyword == CASE self.kind = "Class" -> "class"
                         [] self.kind = "DataType" -> "dataType"
                         [] self.kind = "Enumeration" -> "enumeration"
                         [] self.kind = "Interface" -> "interface"
                         [] self.kind = "Primitive" -> "primitive"
            line == HeaderLine(out[1], self)
            header == keyword \o " " \o self.name
            start == Len(line) - Len(header)
                       - (IF self.id # None THEN Len(" as " \o self.id[1]) ELSE 0)
        IN  /\ start >= 0
            /\ SubSeq(line, start + 1, start + Len(header)) = header
            /\ start > 0 => SubSeq(line, start, start) = " "
            /\ IF self.id # None
               THEN From(line, start + Len(header) + 1) = " as " \o self.id[1]
               ELSE /\ From(line, start + Len(header) + 1) = ""
                    /\ ~Contains(line, " as")
                    /\ LastChar(line) = LastChar(self.name)

C8_Witness ==
    /\ Rendered
    /\ self.kind = "DataType" /\ self.id = Some("p1") /\ self.is_final
    /\ self.stereotypes = <<"Entity">> /\ ~HasMembers(self) /\ self.meta = <<>>
    /\ ~self.is_abstract
    /\ out[1] = "final " \o Laquo \o "Entity" \o Raquo \o " dataType Order as p1"

(***************************************************************************)
(* C9: lines are separated by `\n` and the text does not end with one: it  *)
(* ends with `}` when there are members, else with the id or the name.     *)
(* It has one line for the annotations if any, one for the header, and     *)
(* with members one per member and one for the `}`.                        *)
(***************************************************************************)
C9_LineStructure ==
    Rendered =>
        /\ LastChar(out[1]) # "\n"
        /\ IF HasMembers(self)
           THEN LastChar(out[1]) = "}"
           ELSE LastChar(out[1]) = LastChar(IdOrName(self))
        /\ CountOf(out[1], "\n") + 1 =
               (IF self.meta # <<>> THEN 1 ELSE 0) + 1
                 + (IF HasMembers(self)
                    THEN Len(self.attributes) + Len(self.operations) + 1
                    ELSE 0)

C9_Witness ==
    /\ Rendered
    /\ self.meta # <<>> /\ Len(self.attributes) = 1 /\ Len(self.operations) = 1
    /\ CountOf(out[1], "\n") = 4

(***************************************************************************)
(* C10: the encoding holds kind as its kebab-case token and name, always;  *)
(* an `abstract` or `final` entry exactly when the flag is true, an `id`   *)
(* entry exactly when id is present, and a stereotypes, attributes or      *)
(* operations entry exactly when the sequence is not empty.                *)
(***************************************************************************)
C10_Encoding ==
    Encoded =>
        LET e == enc[1]
            Has(key) == \E i \in 1..Len(e) : e[i][1] = key
            token == CASE self.kind = "Class" -> "class"
                       [] self.kind = "DataType" -> "data-type"
                       [] self.kind = "Enumeration" -> "enumeration"
                       [] self.kind = "Interface" -> "interface"
                       [] self.kind = "Primitive" -> "primitive"
        IN  /\ \E i \in 1..Len(e) : e[i] = <<"kind", <<"str", token>>>>
            /\ \E i \in 1..Len(e) : e[i] = <<"name", <<"str", self.name>>>>
            /\ Has("abstract") <=> self.is_abstract
            /\ Has("final") <=> self.is_final
            /\ Has("id") <=> self.id # None
            /\ Has("stereotypes") <=> self.stereotypes # <<>>
            /\ Has("attributes") <=> self.attributes # <<>>
            /\ Has("operations") <=> self.operations # <<>>

====
